---- MODULE Spec2Model ----
(***************************************************************************)
(* Earthquake monitoring agent (stage3): the boundary layer (app/main.py), *)
(* the router EarthquakeAgent.process_message, the extractor               *)
(* parse_message, the provider client get_earthquakes and the formatter    *)
(* _format_response (app/agent.py, app/earthquake.py, app/models.py).      *)
(*                                                                         *)
(* Texts are TLA+ strings; a character is a string of length 1.            *)
(* The magnitudes and depths of events are integers counting tenths, the   *)
(* magnitudes of a Filter, latitudes and longitudes integers counting      *)
(* hundredths; the modelled inputs carry at most that many fractional      *)
(* digits.                                                                 *)
(***************************************************************************)
EXTENDS Integers, Sequences, FiniteSets, TLC

\* Python's None where a string is expected (texts never contain it: the
\* code lower-cases what it keeps)
None == "<None>"

\* Python's None in an Optional[int] / Optional[float] field; the numbers
\* those fields hold are never negative
NoNumber == -1

----------------------------------------------------------------------------
(* Characters and the str methods the code uses *)

\* s[i], or the empty string when i is outside s
Char(s, i) == IF i >= 1 /\ i <= Len(s) THEN SubSeq(s, i, i) ELSE ""

Digits == {"0", "1", "2", "3", "4", "5", "6", "7", "8", "9"}

LowerLetters ==
  {"a", "b", "c", "d", "e", "f", "g", "h", "i", "j", "k", "l", "m",
   "n", "o", "p", "q", "r", "s", "t", "u", "v", "w", "x", "y", "z"}

UpperLetters ==
  {"A", "B", "C", "D", "E", "F", "G", "H", "I", "J", "K", "L", "M",
   "N", "O", "P", "Q", "R", "S", "T", "U", "V", "W", "X", "Y", "Z"}

\* regex \s and the default argument of str.strip / str.split
Whitespace == {" ", "\t", "\n", "\r"}

\* regex \w
WordChars == LowerLetters \cup UpperLetters \cup Digits \cup {"_"}

\* the argument of .strip('.,!?')
Punctuation == {".", ",", "!", "?"}

LowerChar(c) ==
  CASE c = "A" -> "a" [] c = "B" -> "b" [] c = "C" -> "c" [] c = "D" -> "d"
    [] c = "E" -> "e" [] c = "F" -> "f" [] c = "G" -> "g" [] c = "H" -> "h"
    [] c = "I" -> "i" [] c = "J" -> "j" [] c = "K" -> "k" [] c = "L" -> "l"
    [] c = "M" -> "m" [] c = "N" -> "n" [] c = "O" -> "o" [] c = "P" -> "p"
    [] c = "Q" -> "q" [] c = "R" -> "r" [] c = "S" -> "s" [] c = "T" -> "t"
    [] c = "U" -> "u" [] c = "V" -> "v" [] c = "W" -> "w" [] c = "X" -> "x"
    [] c = "Y" -> "y" [] c = "Z" -> "z" [] OTHER -> c

UpperChar(c) ==
  CASE c = "a" -> "A" [] c = "b" -> "B" [] c = "c" -> "C" [] c = "d" -> "D"
    [] c = "e" -> "E" [] c = "f" -> "F" [] c = "g" -> "G" [] c = "h" -> "H"
    [] c = "i" -> "I" [] c = "j" -> "J" [] c = "k" -> "K" [] c = "l" -> "L"
    [] c = "m" -> "M" [] c = "n" -> "N" [] c = "o" -> "O" [] c = "p" -> "P"
    [] c = "q" -> "Q" [] c = "r" -> "R" [] c = "s" -> "S" [] c = "t" -> "T"
    [] c = "u" -> "U" [] c = "v" -> "V" [] c = "w" -> "W" [] c = "x" -> "X"
    [] c = "y" -> "Y" [] c = "z" -> "Z" [] OTHER -> c

RECURSIVE MapFrom(_, _, _)
MapFrom(s, i, upper) ==
  IF i > Len(s) THEN ""
  ELSE (IF upper THEN UpperChar(Char(s, i)) ELSE LowerChar(Char(s, i)))
         \o MapFrom(s, i + 1, upper)

\* str.lower()
Lower(s) == MapFrom(s, 1, FALSE)

\* str.upper()
Upper(s) == MapFrom(s, 1, TRUE)

\* does the literal lit occur in s at position i
StartsAt(s, lit, i) ==
  /\ i >= 1
  /\ i + Len(lit) - 1 <= Len(s)
  /\ SubSeq(s, i, i + Len(lit) - 1) = lit

\* the Python operator `lit in s`
Contains(s, lit) == \E i \in 1..(Len(s) + 1) : StartsAt(s, lit, i)

\* first position >= i whose character is not in cs (Len(s)+1 when none)
RECURSIVE SkipWhile(_, _, _)
SkipWhile(s, i, cs) ==
  IF i <= Len(s) /\ Char(s, i) \in cs THEN SkipWhile(s, i + 1, cs) ELSE i

\* last position <= i whose character is not in cs (0 when none)
RECURSIVE SkipBack(_, _, _)
SkipBack(s, i, cs) ==
  IF i >= 1 /\ Char(s, i) \in cs THEN SkipBack(s, i - 1, cs) ELSE i

\* str.strip(cs)
StripChars(s, cs) ==
  LET a == SkipWhile(s, 1, cs)
      b == SkipBack(s, Len(s), cs)
  IN IF a > b THEN "" ELSE SubSeq(s, a, b)

\* str.strip()
Strip(s) == StripChars(s, Whitespace)

\* str.rstrip()
RStrip(s) ==
  LET b == SkipBack(s, Len(s), Whitespace)
  IN IF b = 0 THEN "" ELSE SubSeq(s, 1, b)

\* first position >= i whose character is in cs (Len(s)+1 when none)
RECURSIVE SkipUntil(_, _, _)
SkipUntil(s, i, cs) ==
  IF i <= Len(s) /\ Char(s, i) \notin cs THEN SkipUntil(s, i + 1, cs) ELSE i

\* str.split(): the maximal runs of non-whitespace characters
RECURSIVE SplitFrom(_, _)
SplitFrom(s, i) ==
  LET a == SkipWhile(s, i, Whitespace)
      b == SkipUntil(s, a, Whitespace)
  IN IF a > Len(s) THEN <<>>
     ELSE <<SubSeq(s, a, b - 1)>> \o SplitFrom(s, b)

Split(s) == SplitFrom(s, 1)

\* sep.join(parts)
RECURSIVE Join(_, _)
Join(sep, parts) ==
  IF parts = <<>> THEN ""
  ELSE IF Len(parts) = 1 THEN parts[1]
  ELSE parts[1] \o sep \o Join(sep, Tail(parts))

\* words[:n]
Take(seq, n) == SubSeq(seq, 1, IF Len(seq) < n THEN Len(seq) ELSE n)

\* position of the last occurrence of lit in s (0 when none): str.rfind + 1
LastIndexOf(s, lit) ==
  LET hits == {i \in 1..Len(s) : StartsAt(s, lit, i)}
  IN IF hits = {} THEN 0 ELSE CHOOSE i \in hits : \A j \in hits : j <= i

\* s.rsplit(kw, 1)[-1] for a kw that occurs in s
RSplitLast(s, kw) ==
  LET a == LastIndexOf(s, kw) + Len(kw)
  IN IF a > Len(s) THEN "" ELSE SubSeq(s, a, Len(s))

Min(S) == CHOOSE x \in S : \A y \in S : x <= y

Max2(a, b) == IF a >= b THEN a ELSE b

Min2(a, b) == IF a <= b THEN a ELSE b

----------------------------------------------------------------------------
(* Numbers in text *)

DigitVal(c) ==
  CASE c = "0" -> 0 [] c = "1" -> 1 [] c = "2" -> 2 [] c = "3" -> 3
    [] c = "4" -> 4 [] c = "5" -> 5 [] c = "6" -> 6 [] c = "7" -> 7
    [] c = "8" -> 8 [] c = "9" -> 9

\* int(s) for a string of decimal digits
RECURSIVE IntOfPrefix(_, _)
IntOfPrefix(s, n) ==
  IF n = 0 THEN 0 ELSE IntOfPrefix(s, n - 1) * 10 + DigitVal(Char(s, n))

IntOf(s) == IntOfPrefix(s, Len(s))

\* end (exclusive) of the greedy match of [0-9]+(?:\.[0-9]+)? at i,
\* which must start with a digit
NumEnd(s, i) ==
  LET j == SkipWhile(s, i, Digits)
  IN IF j + 1 <= Len(s) /\ Char(s, j) = "." /\ Char(s, j + 1) \in Digits
     THEN SkipWhile(s, j + 1, Digits)
     ELSE j

\* float(s) in hundredths, for s matching [0-9]+(?:\.[0-9]+)? with at most
\* two fractional digits (the modelled inputs have no more)
FloatHundredths(s) ==
  LET j == SkipWhile(s, 1, Digits)
  IN IntOf(SubSeq(s, 1, j - 1)) * 100
       + (IF j < Len(s) THEN DigitVal(Char(s, j + 1)) * 10 ELSE 0)
       + (IF j + 1 < Len(s) THEN DigitVal(Char(s, j + 2)) ELSE 0)

----------------------------------------------------------------------------
(* The regular expressions of parse_message.  A search yields the text of  *)
(* its capture group at the leftmost match, or None.                       *)

\* positions 1..Len(s) at which a match may start
Positions(s) == 1..Len(s)

\* the number captured at a, where a is the first position after optional
\* whitespace; None when no digit is there
NumAfterSpaces(s, i) ==
  LET a == SkipWhile(s, i, Whitespace)
  IN IF Char(s, a) \in Digits THEN SubSeq(s, a, NumEnd(s, a) - 1) ELSE None

\* `lits[1]|lits[2]|...` then \s*([0-9]+(?:\.[0-9]+)?) at position i
LitNumAt(s, lits, i) ==
  LET ok == {k \in 1..Len(lits) :
               /\ StartsAt(s, lits[k], i)
               /\ NumAfterSpaces(s, i + Len(lits[k])) # None}
  IN IF ok = {} THEN None ELSE NumAfterSpaces(s, i + Len(lits[Min(ok)]))

SearchLitNum(s, lits) ==
  LET hits == {i \in Positions(s) : LitNumAt(s, lits, i) # None}
  IN IF hits = {} THEN None ELSE LitNumAt(s, lits, Min(hits))

\* >\s*=\s*([0-9]+(?:\.[0-9]+)?) at position i
GtEqNumAt(s, i) ==
  LET b == SkipWhile(s, i + 1, Whitespace)
  IN IF Char(s, i) = ">" /\ Char(s, b) = "=" THEN NumAfterSpaces(s, b + 1)
     ELSE None

SearchGtEqNum(s) ==
  LET hits == {i \in Positions(s) : GtEqNumAt(s, i) # None}
  IN IF hits = {} THEN None ELSE GtEqNumAt(s, Min(hits))

\* ([0-9]+(?:\.[0-9]+)?)\s*\+ at position i
NumPlusAt(s, i) ==
  LET e == NumEnd(s, i)
  IN IF Char(s, i) \in Digits /\ Char(s, SkipWhile(s, e, Whitespace)) = "+"
     THEN SubSeq(s, i, e - 1)
     ELSE None

SearchNumPlus(s) ==
  LET hits == {i \in Positions(s) : NumPlusAt(s, i) # None}
  IN IF hits = {} THEN None ELSE NumPlusAt(s, Min(hits))

\* the list `patterns`, each searched in low
MagnitudePatterns(low) ==
  << SearchLitNum(low, <<">=">>),
     SearchGtEqNum(low),
     SearchLitNum(low, <<"magnitude", "mag", "m">>),
     SearchNumPlus(low),
     SearchLitNum(low, <<"greater than">>),
     SearchLitNum(low, <<"above">>) >>

\* the loop without its `break`: the last pattern that matches decides
FirstMagnitudeNoBreak(low, default) ==
  LET res  == MagnitudePatterns(low)
      hits == {k \in 1..Len(res) : res[k] # None}
  IN IF hits = {} THEN default
     ELSE FloatHundredths(res[CHOOSE k \in hits : \A j \in hits : j <= k])

\* the loop `for p in patterns`: the first pattern that matches decides
FirstMagnitude(low, default) ==
  LET res  == MagnitudePatterns(low)
      hits == {k \in 1..Len(res) : res[k] # None}
  IN IF hits = {} THEN default ELSE FloatHundredths(res[Min(hits)])

\* (?:last|past)\s+(\d+)\s+<unit>s? at position i
LastPastAt(s, unit, i) ==
  LET a == i + 4
      b == SkipWhile(s, a, Whitespace)
      c == SkipWhile(s, b, Digits)
      d == SkipWhile(s, c, Whitespace)
  IN IF /\ (StartsAt(s, "last", i) \/ StartsAt(s, "past", i))
        /\ b > a /\ c > b /\ d > c
        /\ StartsAt(s, unit, d)
     THEN SubSeq(s, b, c - 1)
     ELSE None

SearchLastPast(s, unit) ==
  LET hits == {i \in Positions(s) : LastPastAt(s, unit, i) # None}
  IN IF hits = {} THEN None ELSE LastPastAt(s, unit, Min(hits))

\* \b<w>\b at position i
WordAt(s, w, i) ==
  /\ StartsAt(s, w, i)
  /\ Char(s, i - 1) \notin WordChars
  /\ Char(s, i + Len(w)) \notin WordChars

SearchWord(s, w) == \E i \in Positions(s) : WordAt(s, w, i)

\* (?:show|list|get)\s+(\d+)
ShowNumAt(s, i) ==
  LET ok == {w \in {"show", "list", "get"} : StartsAt(s, w, i)}
      a  == i + Len(CHOOSE w \in ok : TRUE)
      b  == SkipWhile(s, a, Whitespace)
      c  == SkipWhile(s, b, Digits)
  IN IF ok # {} /\ b > a /\ c > b THEN SubSeq(s, b, c - 1) ELSE None

SearchShowNum(s) ==
  LET hits == {i \in Positions(s) : ShowNumAt(s, i) # None}
  IN IF hits = {} THEN None ELSE ShowNumAt(s, Min(hits))

\* the class [A-Za-z\s\-\.,]
LocChars == LowerLetters \cup UpperLetters \cup Whitespace \cup {"-", ".", ","}

\* (?:\b(in|near|around)\b)\s+([A-Za-z][A-Za-z\s\-\.,]+)$ at position i:
\* group 2, or None
TrailingLocAt(s, i) ==
  LET ok == {w \in {"in", "near", "around"} : WordAt(s, w, i)}
      a  == i + Len(CHOOSE w \in ok : TRUE)
      b  == SkipWhile(s, a, Whitespace)
  IN IF /\ ok # {}
        /\ b > a
        /\ Char(s, b) \in LowerLetters \cup UpperLetters
        /\ b + 1 <= Len(s)
        /\ \A k \in (b + 1)..Len(s) : Char(s, k) \in LocChars
     THEN SubSeq(s, b, Len(s))
     ELSE None

SearchTrailingLoc(s) ==
  LET hits == {i \in Positions(s) : TrailingLocAt(s, i) # None}
  IN IF hits = {} THEN None ELSE TrailingLocAt(s, Min(hits))

\* the lookback guard.  lenient: ^\s*the\s+last\s+\d+\s+(?:days?|hours?)\s*$
\* (Phase A); strict: ^the\s+last\s+\d+\s+(?:days?|hours?)$ (Phase B)
IsLookbackPhrase(s, lenient) ==
  LET a == IF lenient THEN SkipWhile(s, 1, Whitespace) ELSE 1
      b == SkipWhile(s, a + 3, Whitespace)
      c == SkipWhile(s, b + 4, Whitespace)
      d == SkipWhile(s, c, Digits)
      e == SkipWhile(s, d, Whitespace)
      f == IF StartsAt(s, "day", e) THEN e + 3
           ELSE IF StartsAt(s, "hour", e) THEN e + 4 ELSE 0
      g == IF Char(s, f) = "s" THEN f + 1 ELSE f
      h == IF lenient THEN SkipWhile(s, g, Whitespace) ELSE g
  IN /\ StartsAt(s, "the", a) /\ b > a + 3
     /\ StartsAt(s, "last", b) /\ c > b + 4
     /\ d > c /\ e > d /\ f > 0
     /\ (h = Len(s) + 1 \/ (h = Len(s) /\ Char(s, h) = "\n"))

----------------------------------------------------------------------------
(* EarthquakeFilter and parse_message *)

\* EarthquakeFilter with a limit that defaults to None
EarthquakeFilterNoLimit ==
  [min_magnitude |-> 450, max_magnitude |-> NoNumber, hours_back |-> 24,
   location |-> None, limit |-> NoNumber]

\* EarthquakeFilter(): the field defaults of the model class
EarthquakeFilter ==
  [min_magnitude |-> 450, max_magnitude |-> NoNumber, hours_back |-> 24,
   location |-> None, limit |-> 10]

\* Python falsiness of an optional number and of an optional string
FalsyNum(x) == x = NoNumber \/ x = 0

FalsyStr(x) == x = None \/ x = ""

\* the Python expression `x or d`
OrNum(x, d) == IF FalsyNum(x) THEN d ELSE x

OrStr(x, d) == IF FalsyStr(x) THEN d ELSE x

\* the cascade with a "today" rule that assigns 24 instead of raising to it
HoursBackTodayResets(low, default) ==
  LET mh == SearchLastPast(low, "hour")
      md == SearchLastPast(low, "day")
      h1 == IF mh # None THEN IntOf(mh) ELSE default
      h2 == IF md # None THEN IntOf(md) * 24 ELSE h1
      h3 == IF SearchWord(low, "today") THEN 24 ELSE h2
  IN IF SearchWord(low, "week") /\ md = None
     THEN Max2(OrNum(h3, 0), 7 * 24)
     ELSE h3

\* the cascade with a "week" rule that does not look at the days match
HoursBackWeekAlways(low, default) ==
  LET mh == SearchLastPast(low, "hour")
      md == SearchLastPast(low, "day")
      h1 == IF mh # None THEN IntOf(mh) ELSE default
      h2 == IF md # None THEN IntOf(md) * 24 ELSE h1
      h3 == IF SearchWord(low, "today") THEN Max2(OrNum(h2, 0), 24) ELSE h2
  IN IF SearchWord(low, "week")
     THEN Max2(OrNum(h3, 0), 7 * 24)
     ELSE h3

\* the lookback cascade: hours, days, "today", "week"
HoursBack(low, default) ==
  LET mh == SearchLastPast(low, "hour")
      md == SearchLastPast(low, "day")
      h1 == IF mh # None THEN IntOf(mh) ELSE default
      h2 == IF md # None THEN IntOf(md) * 24 ELSE h1
      h3 == IF SearchWord(low, "today") THEN Max2(OrNum(h2, 0), 24) ELSE h2
  IN IF SearchWord(low, "week") /\ md = None
     THEN Max2(OrNum(h3, 0), 7 * 24)
     ELSE h3

\* the result cap: "show 10", "list 5", "get 20"
Limit(low, default) ==
  LET mlimit == SearchShowNum(low)
  IN IF mlimit # None THEN IntOf(mlimit) ELSE default

\* the number of words kept of a location: words[:4]
MaxLocationWords == 4

\* Phase A: the trailing "in|near|around X", guarded against lookback text
LocationPhaseA(low) ==
  LET mloc      == SearchTrailingLoc(low)
      candidate == StripChars(Strip(mloc), Punctuation)
  IN IF mloc # None /\ ~IsLookbackPhrase(candidate, TRUE)
     THEN Join(" ", Take(Split(candidate), MaxLocationWords))
     ELSE None

\* the keywords of Phase B, in the order the loop tries them
FallbackKeywords == <<" in ", " near ", " around ">>

\* Phase B: the loop `for kw in [" in ", " near ", " around "]` from kws[k] on
RECURSIVE LocationPhaseBFrom(_, _, _)
LocationPhaseBFrom(low, kws, k) ==
  IF k > Len(kws) THEN None
  ELSE IF ~Contains(low, kws[k]) THEN LocationPhaseBFrom(low, kws, k + 1)
  ELSE LET part == Strip(RSplitLast(low, kws[k]))
       IN IF IsLookbackPhrase(part, FALSE)
          THEN LocationPhaseBFrom(low, kws, k + 1)
          ELSE StripChars(Join(" ", Take(Split(part), MaxLocationWords)),
                          Punctuation)

LocationPhaseB(low) == LocationPhaseBFrom(low, FallbackKeywords, 1)

\* the location block: Phase A, then Phase B `if not loc`, then `if loc`
Location(low, default) ==
  LET a   == LocationPhaseA(low)
      loc == IF FalsyStr(a) THEN LocationPhaseB(low) ELSE a
  IN IF FalsyStr(loc) THEN default ELSE loc

\* EarthquakeAgent.parse_message
parse_message(message) ==
  LET msg == Strip(OrStr(message, ""))
      low == Lower(msg)
      f   == EarthquakeFilter
  IN [min_magnitude |-> FirstMagnitude(low, f.min_magnitude),
      max_magnitude |-> f.max_magnitude,
      hours_back    |-> HoursBack(low, f.hours_back),
      location      |-> Location(low, f.location),
      limit         |-> Limit(low, f.limit)]

----------------------------------------------------------------------------
(* JSON values of the provider response.  A value is a record tagged with  *)
(* its JSON type; JMissing stands for a key that is absent.  Numbers are   *)
(* in the unit of their field: mag and depth in tenths, longitude and      *)
(* latitude in hundredths, time in milliseconds.  Strings in numeric       *)
(* fields are words that float() rejects.                                  *)

JNull == [t |-> "null"]

JMissing == [t |-> "missing"]

JNum(v) == [t |-> "num", v |-> v]

JStr(v) == [t |-> "str", v |-> v]

JArr(v) == [t |-> "arr", v |-> v]

\* dict.get(key): None for an absent key
Get(obj, key) == IF obj[key].t = "missing" THEN JNull ELSE obj[key]

\* Python truthiness of a JSON value (modelled objects are non-empty)
Truthy(j) ==
  CASE j.t = "null" -> FALSE
    [] j.t = "missing" -> FALSE
    [] j.t = "num" -> j.v # 0
    [] j.t = "str" -> j.v # ""
    [] j.t = "arr" -> j.v # <<>>
    [] OTHER -> TRUE

----------------------------------------------------------------------------
(* EarthquakeAPIClient.get_earthquakes *)

\* whole hours between datetime.min and `now`: the largest lookback for
\* which `now - timedelta(hours=...)` is a representable datetime
HoursSinceDatetimeMin == 17758191

\* the provider's accepted range of the result cap
MinLimit == 1

MaxLimit == 200

\* int(filters.hours_back or 24)
LookbackHours(f) == OrNum(f.hours_back, 24)

\* `start = now - timedelta(...)` raises OverflowError
StartOverflows(f) == LookbackHours(f) > HoursSinceDatetimeMin

\* the dictionary `params` (starttime is kept as the lookback it was
\* computed from; an absent maxmagnitude is NoNumber)
QueryParams(f) ==
  [format       |-> "geojson",
   lookback     |-> LookbackHours(f),
   minmagnitude |-> OrNum(f.min_magnitude, 0),
   orderby      |-> "time",
   limit        |-> Min2(Max2(OrNum(f.limit, 10), MinLimit), MaxLimit),
   maxmagnitude |-> f.max_magnitude]

\* the outcomes of `client.get` / `raise_for_status` that are httpx.HTTPError
HTTPErrorKinds == {"timeout", "connect_error", "bad_status"}

\* loc = (filters.location or "").lower().strip() or None
LocationNeedle(f) == OrStr(Strip(Lower(OrStr(f.location, ""))), None)

Skip == [r |-> "skip"]

Raise(e) == [r |-> "raise", error |-> e]

\* a field of EarthquakeEvent that must validate as str, with the default
\* the code passes for a falsy value; Skip when validation fails
StrField(j, default) ==
  IF ~Truthy(j) THEN [r |-> "ok", v |-> default]
  ELSE IF j.t = "str" THEN [r |-> "ok", v |-> j.v]
  ELSE Skip

\* a field computed as a number from `value or 0`
NumField(j) ==
  IF ~Truthy(j) THEN [r |-> "ok", v |-> 0]
  ELSE IF j.t = "num" THEN [r |-> "ok", v |-> j.v]
  ELSE Skip

\* float(coords[k]) (k counted from 1 here)
CoordField(coords, k) ==
  IF coords.t = "arr" /\ k <= Len(coords.v) /\ coords.v[k].t = "num"
  THEN [r |-> "ok", v |-> coords.v[k].v]
  ELSE Skip

\* id=feat.get("id", "")
IdField(feat) ==
  IF feat.id.t = "missing" THEN [r |-> "ok", v |-> ""]
  ELSE IF feat.id.t = "str" THEN [r |-> "ok", v |-> feat.id.v]
  ELSE Skip

\* alert_level=props.get("alert"), an Optional[str]
AlertField(j) ==
  IF j.t = "null" THEN [r |-> "ok", v |-> None]
  ELSE IF j.t = "str" THEN [r |-> "ok", v |-> j.v]
  ELSE Skip

\* props.get("tsunami") == 1
IsOne(j) == j.t = "num" /\ j.v = 1

\* the body of the try block: the EarthquakeEvent, or Skip when building it
\* raises
BuildEvent(feat, props, coords) ==
  IF props.t # "obj" THEN Skip
  ELSE
    LET id    == IdField(feat)
        mag   == NumField(Get(props, "mag"))
        place == StrField(Get(props, "place"), "Unknown location")
        time  == NumField(Get(props, "time"))
        lat   == CoordField(coords, 2)
        lon   == CoordField(coords, 1)
        depth == CoordField(coords, 3)
        url   == StrField(Get(props, "url"), "")
        alert == AlertField(Get(props, "alert"))
    IN IF \/ id.r = "skip" \/ mag.r = "skip" \/ place.r = "skip"
          \/ time.r = "skip" \/ lat.r = "skip" \/ lon.r = "skip"
          \/ depth.r = "skip" \/ url.r = "skip" \/ alert.r = "skip"
       THEN Skip
       ELSE [r |-> "event",
             ev |-> [id          |-> id.v,
                     magnitude   |-> mag.v,
                     place       |-> place.v,
                     time        |-> time.v,
                     latitude    |-> lat.v,
                     longitude   |-> lon.v,
                     depth       |-> depth.v,
                     url         |-> url.v,
                     alert_level |-> alert.v,
                     tsunami     |-> IsOne(Get(props, "tsunami"))]]

\* the `{}` of `feat.get("properties") or {}` and of
\* `feat.get("geometry") or {}`
EmptyProps ==
  [t |-> "obj", mag |-> JMissing, place |-> JMissing, time |-> JMissing,
   url |-> JMissing, alert |-> JMissing, tsunami |-> JMissing]

EmptyGeom == [t |-> "obj", coordinates |-> JMissing]

\* one iteration of `for feat in ...`: an event, Skip, or Raise
MapFeature(feat, loc) ==
  IF feat.t # "obj" THEN Raise("AttributeError")
  ELSE
    LET p0     == Get(feat, "properties")
        props  == IF Truthy(p0) THEN p0 ELSE EmptyProps
        g0     == Get(feat, "geometry")
        geom   == IF Truthy(g0) THEN g0 ELSE EmptyGeom
        c0     == IF geom.t = "obj" THEN Get(geom, "coordinates") ELSE JNull
        coords == IF Truthy(c0) THEN c0 ELSE JArr(<<JNull, JNull, JNull>>)
        place  == IF props.t = "obj" THEN Get(props, "place") ELSE JNull
    IN IF geom.t # "obj" THEN Raise("AttributeError")
       ELSE IF loc # None /\ props.t # "obj"
         THEN Raise("AttributeError")
       ELSE IF loc # None /\ Truthy(place) /\ place.t # "str"
         THEN Raise("AttributeError")
       ELSE IF loc # None
               /\ ~Contains(Lower(IF Truthy(place) THEN place.v ELSE ""), loc)
         THEN Skip
       ELSE BuildEvent(feat, props, coords)

\* the loop over data.get("features", []) from feats[i] on, acc holding
\* the events appended so far
RECURSIVE MapFeatures(_, _, _, _)
MapFeatures(feats, loc, i, acc) ==
  IF i > Len(feats) THEN [raised |-> FALSE, events |-> acc, error |-> None]
  ELSE LET m == MapFeature(feats[i], loc)
       IN IF m.r = "raise"
          THEN [raised |-> TRUE, events |-> <<>>, error |-> m.error]
          ELSE MapFeatures(feats, loc, i + 1,
                           IF m.r = "event" THEN Append(acc, m.ev) ELSE acc)

\* get_earthquakes from the moment `client.get` completes with reply: the
\* list it returns, or the exception that leaves it
FetchOutcome(f, reply) ==
  IF reply.kind \in HTTPErrorKinds
  THEN [raised |-> FALSE, events |-> <<>>, error |-> None]
  ELSE IF reply.kind = "invalid_json"
  THEN [raised |-> TRUE, events |-> <<>>, error |-> "JSONDecodeError"]
  ELSE IF reply.data.t # "obj"
  THEN [raised |-> TRUE, events |-> <<>>, error |-> "AttributeError"]
  ELSE IF reply.data.features.t = "missing"
  THEN [raised |-> FALSE, events |-> <<>>, error |-> None]
  ELSE IF reply.data.features.t = "str"
  THEN [raised |-> reply.data.features.v # "", events |-> <<>>,
        error  |-> IF reply.data.features.v # "" THEN "AttributeError"
                   ELSE None]
  ELSE IF reply.data.features.t # "arr"
  THEN [raised |-> TRUE, events |-> <<>>, error |-> "TypeError"]
  ELSE MapFeatures(reply.data.features.v, LocationNeedle(f), 1, <<>>)

----------------------------------------------------------------------------
(* EarthquakeAgent._format_response.  The non-ASCII characters of the      *)
(* report are written in ASCII: the em dash as "--", the warning sign as   *)
(* "(!)", the bullet as "*".                                               *)

Pad2(n) == IF n < 10 THEN "0" \o ToString(n) ELSE ToString(n)

\* f"{x:.1f}" for x counted in tenths
Fixed1(n) ==
  LET a == IF n < 0 THEN 0 - n ELSE n
  IN (IF n < 0 THEN "-" ELSE "") \o ToString(a \div 10) \o "."
       \o ToString(a % 10)

\* the hundredths below 10.00 that end in 5 and whose nearest double lies
\* above them, so that one decimal place rounds them up (5.25 and 0.25 are
\* exact doubles and round to the even tenth below)
TiesRoundedUp ==
  {5, 45, 55, 65, 75, 105, 135, 155, 175, 185, 235, 245, 275, 285, 295, 335,
   345, 375, 385, 395, 415, 445, 465, 475, 495, 515, 545, 565, 575, 595, 615,
   645, 665, 675, 695, 715, 745, 765, 775, 795, 805, 815, 855, 865, 875, 905,
   915, 955, 965, 975}

\* round() of the double nearest to n hundredths to tenths, as the format
\* specification .1f does it, for 0 <= n < 1000 or n a whole tenth
TenthsOfHundredths(n) ==
  IF n % 10 < 5 THEN n \div 10
  ELSE IF n % 10 > 5 \/ n \in TiesRoundedUp THEN n \div 10 + 1
  ELSE n \div 10

\* f"{x:.2f}" for x counted in hundredths
Fixed2(n) ==
  LET a == IF n < 0 THEN 0 - n ELSE n
  IN (IF n < 0 THEN "-" ELSE "") \o ToString(a \div 100) \o "."
       \o Pad2(a % 100)

\* ev.time.strftime('%Y-%m-%d %H:%M:%S') for the UTC instant ms milliseconds
\* after the epoch, 0 <= ms < 31 days
Strftime(ms) ==
  LET sec == ms \div 1000
  IN "1970-01-" \o Pad2(sec \div 86400 + 1) \o " "
       \o Pad2((sec % 86400) \div 3600) \o ":"
       \o Pad2((sec % 3600) \div 60) \o ":" \o Pad2(sec % 60)

\* the header part without the default of an unset or zero lookback
PeriodAndMagnitudeNoDefault(filters) ==
  LET hrs == filters.hours_back
  IN " in the last " \o ToString(hrs) \o " hour"
       \o (IF hrs # 1 THEN "s" ELSE "")
       \o " (M" \o Fixed1(TenthsOfHundredths(OrNum(filters.min_magnitude, 0)))
       \o "+)"

\* " in the last N hour(s) (M<mag>+)" shared by both headers
PeriodAndMagnitude(filters) ==
  LET hrs == OrNum(filters.hours_back, 24)
  IN " in the last " \o ToString(hrs) \o " hour"
       \o (IF hrs # 1 THEN "s" ELSE "")
       \o " (M" \o Fixed1(TenthsOfHundredths(OrNum(filters.min_magnitude, 0)))
       \o "+)"

InLocation(filters) ==
  IF FalsyStr(filters.location) THEN "" ELSE " in " \o filters.location

\* the lines appended for the i-th event, the trailing blank line included
EventBlock(i, ev) ==
  LET alert   == IF FalsyStr(ev.alert_level) THEN ""
                 ELSE " [" \o Upper(ev.alert_level) \o "]"
      tsunami == IF ev.tsunami THEN " (!) TSUNAMI WARNING" ELSE ""
  IN << ToString(i) \o ". M" \o Fixed1(ev.magnitude) \o " -- " \o ev.place,
        "   " \o Strftime(ev.time) \o " UTC",
        "   Lat: " \o Fixed2(ev.latitude) \o ", Lon: "
          \o Fixed2(ev.longitude) \o " | Depth: " \o Fixed1(ev.depth)
          \o " km" \o tsunami \o alert >>
     \o (IF ev.url # "" THEN << "   " \o ev.url >> ELSE <<>>)
     \o << "" >>

RECURSIVE EventBlocks(_, _)
EventBlocks(events, n) ==
  IF n = 0 THEN <<>>
  ELSE EventBlocks(events, n - 1) \o EventBlock(n, events[n])

\* _format_response without the final rstrip()
FormatResponseNoRstrip(events, filters) ==
  IF events = <<>>
  THEN "No earthquakes found" \o InLocation(filters)
         \o PeriodAndMagnitude(filters) \o "."
  ELSE Join("\n", <<"Found " \o ToString(Len(events)) \o " earthquake(s)"
                      \o InLocation(filters)
                      \o PeriodAndMagnitude(filters) \o ":", "">>
                    \o EventBlocks(events, Len(events)))

_format_response(events, filters) ==
  IF events = <<>>
  THEN "No earthquakes found" \o InLocation(filters)
         \o PeriodAndMagnitude(filters) \o "."
  ELSE LET header == "Found " \o ToString(Len(events)) \o " earthquake(s)"
                       \o InLocation(filters)
                       \o PeriodAndMagnitude(filters) \o ":"
       IN RStrip(Join("\n", <<header, "">>
                              \o EventBlocks(events, Len(events))))

----------------------------------------------------------------------------
(* EarthquakeAgent.process_message *)

GreetingWords == <<"hello", "hi", "hey">>

GreetingText ==
  "Hello! I monitor earthquakes worldwide.\n\nTry:\n"
    \o "* show 5 earthquakes above magnitude 5 in the last 24 hours\n"
    \o "* earthquakes in Japan in the last 7 days\n"
    \o "* magnitude 6+ today near Indonesia"

HelpText ==
  "I can filter by:\n"
    \o "* Magnitude (e.g., '>=5', 'm5+', 'above 4.5')\n"
    \o "* Time (e.g., 'last 24 hours', 'past 7 days', 'today')\n"
    \o "* Location (e.g., 'in Japan', 'near California')\n"
    \o "* Limit (e.g., 'show 10')\n"

ApologyPrefix == "Sorry, something went wrong: "

\* Intent with the help test ahead of the greeting test
IntentHelpFirst(message) ==
  LET low == Lower(OrStr(message, ""))
  IN IF Contains(low, "help") THEN "help"
     ELSE IF \E k \in 1..Len(GreetingWords) : Contains(low, GreetingWords[k])
     THEN "greeting"
     ELSE "query"

\* the intent decided by the two `if` statements on low
Intent(message) ==
  LET low == Lower(OrStr(message, ""))
  IN IF \E k \in 1..Len(GreetingWords) : Contains(low, GreetingWords[k])
     THEN "greeting"
     ELSE IF Contains(low, "help") THEN "help"
     ELSE "query"

\* a TelexResponse returned by process_message; has_events is FALSE when
\* its events field is None
Returned(response, has_events, events) ==
  [raised |-> FALSE, response |-> response, has_events |-> has_events,
   events |-> events, error |-> None]

\* the query path without its except clause: the exception leaves
\* process_message
OnExceptionPropagate(e) ==
  [raised |-> TRUE, response |-> None, has_events |-> FALSE,
   events |-> <<>>, error |-> e]

\* the `except Exception as e` clause of the query path
OnException(e) ==
  Returned(ApologyPrefix \o e \o "\nPlease try again or type 'help'.",
           FALSE, <<>>)

\* process_message has not been called
NotCalled ==
  [raised |-> FALSE, response |-> None, has_events |-> FALSE,
   events |-> <<>>, error |-> None]

----------------------------------------------------------------------------
(* The boundary layer: the routes of app/main.py *)

\* the chain `a or b or c or ...` over optional strings: the first truthy
\* value, else the last one
RECURSIVE OrChain(_)
OrChain(vals) ==
  IF Len(vals) = 1 THEN vals[1]
  ELSE IF ~FalsyStr(vals[1]) THEN vals[1]
  ELSE OrChain(Tail(vals))

\* UserText with message ahead of prompt
UserTextMessageFirst(body) ==
  OrChain(<<body.message, body.prompt, body.text, body.input>>)

\* UserText with the default query "recent" when no key carries text
UserTextOrRecent(body) ==
  OrChain(<<body.prompt, body.message, body.text, body.input, "recent">>)

\* user_text = request.prompt or request.message or request.text
\*             or request.input
UserText(body) ==
  OrChain(<<body.prompt, body.message, body.text, body.input>>)

MissingTextResponse ==
  "I didn't receive any text. Try: 'Show earthquakes above magnitude 5 "
    \o "in the last 24 hours'."

\* the A2AResponse returned when `not user_text`
MissingTextReply ==
  [status |-> 200, response |-> MissingTextResponse, error |-> TRUE,
   reason |-> "missing_text_key", events_count |-> 0]

\* the A2AResponse built from the TelexResponse resp, or from the exception
\* process_message raised
A2AReply(resp) ==
  IF resp.raised
  THEN [status |-> 200,
        response |-> "I encountered an error processing your request: "
                       \o resp.error,
        error |-> TRUE, reason |-> "", events_count |-> 0]
  ELSE [status |-> 200, response |-> resp.response, error |-> FALSE,
        reason |-> "", events_count |-> Len(resp.events)]

\* the reply of /chat: the TelexResponse itself, or HTTP 500
ChatReply(resp) ==
  IF resp.raised
  THEN [status |-> 500, response |-> resp.error, error |-> TRUE,
        reason |-> "", events_count |-> 0]
  ELSE [status |-> 200, response |-> resp.response, error |-> FALSE,
        reason |-> "", events_count |-> Len(resp.events)]

\* the framework's answer to a body that fails validation
ValidationErrorReply ==
  [status |-> 422, response |-> "", error |-> TRUE,
   reason |-> "validation", events_count |-> 0]

NoReply ==
  [status |-> 0, response |-> "", error |-> FALSE, reason |-> "",
   events_count |-> 0]

----------------------------------------------------------------------------
(* State.  A request is handled by the coroutine of its route; between two *)
(* awaits the coroutines of other requests may run.                        *)

Reqs == {"r1", "r2"}

VARIABLES
  pc,        \* pc[r]: where request r stands
  endpoint,  \* endpoint[r]: the route that received r
  body,      \* body[r]: the inbound JSON body
  text,      \* text[r]: the message given to process_message
  intent,    \* intent[r]: "greeting", "help", "query", or None before routing
  filters,   \* filters[r]: the EarthquakeFilter built by parse_message
  queries,   \* queries[r]: the provider queries issued for r, in order
  provider,  \* provider[r]: what the provider call of r came back with
  fetched,   \* fetched[r]: what get_earthquakes returned or raised
  result,    \* result[r]: what process_message returned or raised
  reply      \* reply[r]: the HTTP reply of the route

vars ==
  <<pc, endpoint, body, text, intent, filters, queries, provider, fetched,
    result, reply>>

NoBody ==
  [prompt |-> None, message |-> None, text |-> None, input |-> None,
   nested |-> None]

NoProviderReply == [kind |-> "none", data |-> JNull]

NotFetched == [raised |-> FALSE, events |-> <<>>, error |-> None]

Idle ==
  /\ endpoint = [r \in Reqs |-> None]
  /\ body = [r \in Reqs |-> NoBody]
  /\ text = [r \in Reqs |-> None]
  /\ intent = [r \in Reqs |-> None]
  /\ filters = [r \in Reqs |-> EarthquakeFilter]
  /\ queries = [r \in Reqs |-> <<>>]
  /\ provider = [r \in Reqs |-> NoProviderReply]
  /\ fetched = [r \in Reqs |-> NotFetched]
  /\ result = [r \in Reqs |-> NotCalled]
  /\ reply = [r \in Reqs |-> NoReply]

Init ==
  /\ pc = [r \in Reqs |-> "idle"]
  /\ Idle

----------------------------------------------------------------------------
(* Actions *)

\* POST /a2a/agent/earthquake with body b, up to the call of process_message
earthquake_agent_endpoint(r, b) ==
  /\ pc[r] = "idle"
  /\ endpoint' = [endpoint EXCEPT ![r] = "a2a"]
  /\ body' = [body EXCEPT ![r] = b]
  /\ IF FalsyStr(UserText(b))
     THEN /\ reply' = [reply EXCEPT ![r] = MissingTextReply]
          /\ pc' = [pc EXCEPT ![r] = "done"]
          /\ text' = text
     ELSE /\ text' = [text EXCEPT ![r] = UserText(b)]
          /\ pc' = [pc EXCEPT ![r] = "routing"]
          /\ reply' = reply
  /\ UNCHANGED <<intent, filters, queries, provider, fetched, result>>

\* POST /chat with a TelexMessage whose message is m (None: the key is
\* absent and the framework rejects the body)
chat_endpoint(r, m) ==
  /\ pc[r] = "idle"
  /\ endpoint' = [endpoint EXCEPT ![r] = "chat"]
  /\ body' = [body EXCEPT ![r] = [NoBody EXCEPT !.message = m]]
  /\ IF m = None
     THEN /\ reply' = [reply EXCEPT ![r] = ValidationErrorReply]
          /\ pc' = [pc EXCEPT ![r] = "done"]
          /\ text' = text
     ELSE /\ text' = [text EXCEPT ![r] = m]
          /\ pc' = [pc EXCEPT ![r] = "routing"]
          /\ reply' = reply
  /\ UNCHANGED <<intent, filters, queries, provider, fetched, result>>

\* process_message: the greeting and help branches, or entry of the try block
Classify(r) ==
  /\ pc[r] = "routing"
  /\ intent' = [intent EXCEPT ![r] = Intent(text[r])]
  /\ IF Intent(text[r]) = "greeting"
     THEN /\ result' = [result EXCEPT ![r] = Returned(GreetingText, FALSE, <<>>)]
          /\ pc' = [pc EXCEPT ![r] = "returned"]
     ELSE IF Intent(text[r]) = "help"
     THEN /\ result' = [result EXCEPT ![r] = Returned(HelpText, FALSE, <<>>)]
          /\ pc' = [pc EXCEPT ![r] = "returned"]
     ELSE /\ result' = result
          /\ pc' = [pc EXCEPT ![r] = "query"]
  /\ UNCHANGED <<endpoint, body, text, filters, queries, provider, fetched,
                 reply>>

\* filters = self.parse_message(message)
Parse(r) ==
  /\ pc[r] = "query"
  /\ filters' = [filters EXCEPT ![r] = parse_message(text[r])]
  /\ pc' = [pc EXCEPT ![r] = "parsed"]
  /\ UNCHANGED <<endpoint, body, text, intent, queries, provider, fetched,
                 result, reply>>

\* get_earthquakes up to `await self.client.get(...)`: the query is built and
\* sent, unless computing its start time raises
IssueQuery(r) ==
  /\ pc[r] = "parsed"
  /\ IF StartOverflows(filters[r])
     THEN /\ fetched' = [fetched EXCEPT ![r] =
                           [raised |-> TRUE, events |-> <<>>,
                            error |-> "OverflowError"]]
          /\ result' = [result EXCEPT ![r] = OnException("OverflowError")]
          /\ pc' = [pc EXCEPT ![r] = "returned"]
          /\ queries' = queries
     ELSE /\ queries' = [queries EXCEPT ![r] =
                           Append(@, QueryParams(filters[r]))]
          /\ pc' = [pc EXCEPT ![r] = "awaiting"]
          /\ UNCHANGED <<fetched, result>>
  /\ UNCHANGED <<endpoint, body, text, intent, filters, provider, reply>>

\* ProviderReply with one retry after a failed call
ProviderReplyRetry(r, rep) ==
  /\ pc[r] = "awaiting"
  /\ provider' = [provider EXCEPT ![r] = rep]
  /\ IF rep.kind \in HTTPErrorKinds /\ Len(queries[r]) < 2
     THEN /\ queries' = [queries EXCEPT ![r] =
                           Append(@, QueryParams(filters[r]))]
          /\ UNCHANGED <<pc, fetched, result>>
     ELSE /\ fetched' = [fetched EXCEPT ![r] = FetchOutcome(filters[r], rep)]
          /\ queries' = queries
          /\ IF FetchOutcome(filters[r], rep).raised
             THEN /\ result' = [result EXCEPT ![r] =
                          OnException(FetchOutcome(filters[r], rep).error)]
                  /\ pc' = [pc EXCEPT ![r] = "returned"]
             ELSE /\ result' = result
                  /\ pc' = [pc EXCEPT ![r] = "fetched"]
  /\ UNCHANGED <<endpoint, body, text, intent, filters, reply>>

\* the provider call completes with rep; get_earthquakes maps the records
\* and returns, or an exception leaves it and reaches the except clause
ProviderReply(r, rep) ==
  /\ pc[r] = "awaiting"
  /\ provider' = [provider EXCEPT ![r] = rep]
  /\ fetched' = [fetched EXCEPT ![r] = FetchOutcome(filters[r], rep)]
  /\ IF FetchOutcome(filters[r], rep).raised
     THEN /\ result' = [result EXCEPT ![r] =
                          OnException(FetchOutcome(filters[r], rep).error)]
          /\ pc' = [pc EXCEPT ![r] = "returned"]
     ELSE /\ result' = result
          /\ pc' = [pc EXCEPT ![r] = "fetched"]
  /\ UNCHANGED <<endpoint, body, text, intent, filters, queries, reply>>

\* Format with the Filter kept in a field of the shared agent, where the
\* request that parsed last has left its own
FormatSharedFilter(r) ==
  /\ pc[r] = "fetched"
  /\ \E q \in Reqs :
       /\ intent[q] = "query"
       /\ pc[q] \in {"parsed", "awaiting", "fetched", "returned", "done"}
       /\ result' = [result EXCEPT ![r] =
                       Returned(_format_response(fetched[r].events,
                                                 filters[q]),
                                TRUE, fetched[r].events)]
  /\ pc' = [pc EXCEPT ![r] = "returned"]
  /\ UNCHANGED <<endpoint, body, text, intent, filters, queries, provider,
                 fetched, reply>>

\* text = self._format_response(events, filters); return TelexResponse(...)
Format(r) ==
  /\ pc[r] = "fetched"
  /\ result' = [result EXCEPT ![r] =
                  Returned(_format_response(fetched[r].events, filters[r]),
                           TRUE, fetched[r].events)]
  /\ pc' = [pc EXCEPT ![r] = "returned"]
  /\ UNCHANGED <<endpoint, body, text, intent, filters, queries, provider,
                 fetched, reply>>

\* the route turns what process_message returned or raised into its reply
Respond(r) ==
  /\ pc[r] = "returned"
  /\ reply' = [reply EXCEPT ![r] =
                 IF endpoint[r] = "chat" THEN ChatReply(result[r])
                 ELSE A2AReply(result[r])]
  /\ pc' = [pc EXCEPT ![r] = "done"]
  /\ UNCHANGED <<endpoint, body, text, intent, filters, queries, provider,
                 fetched, result>>

----------------------------------------------------------------------------
(* Inputs *)

\* the phrases texts are assembled from
Phrases ==
  {"show 5 earthquakes", "magnitude 6+", "above 5.5", "in Japan",
   "near Tokyo", "around Peru", "in the last 7 days", "past 2 hours",
   "today", "week"}

\* texts of their own: the examples of the documentation, and a place whose
\* name contains a greeting word
ExampleTexts ==
  {"show 5 earthquakes above magnitude 5 in the last 24 hours",
   "magnitude 6+ today near Indonesia",
   "earthquakes in the last 7 days",
   "earthquakes near Chile"}

\* texts with several lookback phrases: hours and days in both orders and
\* with the smaller and the larger window first, "week" and "today" beside
\* them, a zero lookback, and a word that only starts with "week"
CascadeTexts ==
  {"last 48 hours past 1 day", "past 1 day last 48 hours",
   "week past 1 day", "past 1 day week", "past 3 days today",
   "last 0 hours", "last 0 hours today", "last 200 hours week",
   "last 200 hours today", "week last 48 hours past 1 day",
   "weekly report"}

\* texts with several magnitude phrases, in both orders, and a floor with
\* two fractional digits
MagnitudeTexts ==
  {"m 4 magnitude 6", "magnitude 6 m 4", ">= 5 magnitude 6",
   "magnitude 6 >=5", "> = 5.5 m4+", "3+ above 5", "above 5 3+",
   "greater than 4 above 5", "above 5 greater than 4", "above 5.25"}

\* texts with a place of more than four words, with punctuation inside, and
\* with a space before the end of the text
LocationTexts ==
  {"earthquakes near Tokyo, Osaka, Kyoto, Nara, Kobe",
   "earthquakes in the north island of New Zealand",
   "earthquakes near Tokyo "}

\* the words the router looks for, in several spellings
RouterWords == {"hello", "hi", "hey", "help", "Hey", "HELP"}

\* what a text may end with
Endings == {"", ".", "!"}

\* the largest number of phrases in a text
MaxPhrases == 3

\* the texts of at most n phrases, separated by single spaces
RECURSIVE PhraseTexts(_)
PhraseTexts(n) ==
  IF n = 0 THEN {""}
  ELSE LET shorter == PhraseTexts(n - 1)
       IN shorter \cup {IF t = "" THEN p ELSE t \o " " \o p :
                          t \in shorter, p \in Phrases}

\* texts around one or two router words
RouterTexts ==
  RouterWords
    \cup {v \o " " \o w : v \in RouterWords, w \in RouterWords}
    \cup {w \o " " \o p : w \in RouterWords, p \in Phrases}
    \cup {p \o " " \o w : w \in RouterWords, p \in Phrases}

\* the texts with a router word, the examples, a missing and a blank text
DirectTexts ==
  {t \o e : t \in RouterTexts \cup ExampleTexts \cup CascadeTexts
                   \cup MagnitudeTexts \cup LocationTexts,
            e \in Endings}
    \cup {None, "  "}

Texts ==
  {t \o e : t \in PhraseTexts(MaxPhrases), e \in Endings} \cup DirectTexts

\* the messages the requests of the end-to-end specification carry
RequestTexts ==
  {"hello", "help", "",
   "earthquakes in the last 7 days.",
   "magnitude 6+ today near Indonesia",
   "show 5 earthquakes above magnitude 5 in the last 24 hours",
   "earthquakes in the last 20000000 hours"}

\* A2A bodies: each flat key absent (None), empty or a text; nested is the
\* text of the text-kind part under params.message.parts, None when the
\* body has no params
A2ABodies ==
  { [NoBody EXCEPT !.message = "hello"],
    [NoBody EXCEPT !.prompt = "", !.message = "earthquakes in the last 7 days."],
    [NoBody EXCEPT !.prompt = "magnitude 6+ today near Indonesia",
                   !.message = "help"],
    [NoBody EXCEPT !.text = "help", !.input = "hello"],
    [NoBody EXCEPT !.input =
       "show 5 earthquakes above magnitude 5 in the last 24 hours"],
    [NoBody EXCEPT !.text = "earthquakes in the last 20000000 hours"],
    NoBody,
    [NoBody EXCEPT !.message = "", !.input = ""],
    [NoBody EXCEPT !.nested = "earthquakes near Japan"] }

ChatMessages == {None, "", "hey", "earthquakes near Japan"}

\* provider records
GoodProps(place, url, alert, tsunami) ==
  [t |-> "obj", mag |-> JNum(52), place |-> place, time |-> JNum(90061000),
   url |-> url, alert |-> alert, tsunami |-> tsunami]

Geometry(coords) == [t |-> "obj", coordinates |-> coords]

Feature(id, props, geom) ==
  [t |-> "obj", id |-> id, properties |-> props, geometry |-> geom]

GoodCoords == JArr(<<JNum(14250), JNum(3812), JNum(100)>>)

FeatJapan ==
  Feature(JStr("us1"),
          GoodProps(JStr("10 km E of Sendai, Japan"), JStr("https://e/us1"),
                    JStr("red"), JNum(1)),
          Geometry(GoodCoords))

FeatPeru ==
  Feature(JStr("us2"),
          GoodProps(JStr("Lima, Peru"), JNull, JNull, JNum(0)),
          Geometry(JArr(<<JNum(-7703), JNum(-1205), JNum(355)>>)))

\* no place, no id
FeatNoPlace ==
  Feature(JMissing, GoodProps(JNull, JStr("https://e/us3"), JNull, JNull),
          Geometry(GoodCoords))

\* coordinates too short: coords[2] raises IndexError inside the try block
FeatShortCoords ==
  Feature(JStr("us4"),
          GoodProps(JStr("Honshu, Japan"), JNull, JNull, JNull),
          Geometry(JArr(<<JNum(14250), JNum(3812)>>)))

\* no geometry: the default [None, None, None] makes float() raise
FeatNoGeometry ==
  Feature(JStr("us5"),
          GoodProps(JStr("Kyushu, Japan"), JNull, JNull, JNull), JNull)

\* mag is a word: validation of EarthquakeEvent fails
FeatBadMag ==
  Feature(JStr("us6"),
          [GoodProps(JStr("Hokkaido, Japan"), JNull, JNull, JNull)
             EXCEPT !.mag = JStr("strong")],
          Geometry(GoodCoords))

\* properties is a string
FeatBadProps == Feature(JStr("us7"), JStr("n/a"), Geometry(GoodCoords))

\* the feature entry is not an object
FeatNotObject == JStr("feature")

Features ==
  {FeatJapan, FeatPeru, FeatNoPlace, FeatShortCoords, FeatNoGeometry,
   FeatBadMag, FeatBadProps, FeatNotObject}

\* the largest number of records in a provider response
MaxFeatures == 2

RECURSIVE SeqsUpTo(_, _)
SeqsUpTo(S, n) ==
  IF n = 0 THEN {<<>>}
  ELSE LET shorter == SeqsUpTo(S, n - 1)
       IN shorter \cup {Append(q, x) : q \in shorter, x \in S}

FeatureCollection(feats) == [t |-> "obj", features |-> feats]

Failed(kind) == [kind |-> kind, data |-> JNull]

Json(data) == [kind |-> "json", data |-> data]

\* what the provider call can come back with: a transport or status failure,
\* a body that is not JSON, or a JSON body of the expected or another shape
FailedReplies ==
  {Failed(k) : k \in HTTPErrorKinds \cup {"invalid_json"}}
    \cup {Json(JArr(<<>>)), Json(FeatureCollection(JNull)),
          Json(FeatureCollection(JMissing))}

ProviderReplies ==
  FailedReplies
    \cup {Json(FeatureCollection(JArr(q))) : q \in SeqsUpTo(Features, MaxFeatures)}

\* the replies of the end-to-end specification
RequestReplies ==
  FailedReplies
    \cup {Json(FeatureCollection(JArr(q))) :
            q \in {<<>>, <<FeatJapan>>, <<FeatPeru, FeatJapan>>,
                   <<FeatShortCoords, FeatJapan>>,
                   <<FeatJapan, FeatNotObject>>}}

----------------------------------------------------------------------------
(* Specifications *)

\* end to end: two requests, each through one of the routes
Next ==
  \E r \in Reqs :
    \/ \E b \in A2ABodies : earthquake_agent_endpoint(r, b)
    \/ \E m \in ChatMessages : chat_endpoint(r, m)
    \/ Classify(r)
    \/ Parse(r)
    \/ IssueQuery(r)
    \/ \E rep \in RequestReplies : ProviderReply(r, rep)
    \/ Format(r)
    \/ Respond(r)

Spec == Init /\ [][Next]_vars

\* the router and the extractor on every text: process_message is entered
\* with the text ("routing"), or, for the texts the router may answer
\* itself, parse_message is called on it ("query")
InitText ==
  \E t \in Texts, p \in {"routing", "query"} :
       /\ p = "query" => t \in DirectTexts
       /\ pc = [r \in Reqs |-> IF r = "r1" THEN p ELSE "idle"]
       /\ endpoint = [r \in Reqs |-> None]
       /\ body = [r \in Reqs |-> NoBody]
       /\ text = [r \in Reqs |-> IF r = "r1" THEN t ELSE None]
       /\ intent = [r \in Reqs |-> None]
       /\ filters = [r \in Reqs |-> EarthquakeFilter]
       /\ queries = [r \in Reqs |-> <<>>]
       /\ provider = [r \in Reqs |-> NoProviderReply]
       /\ fetched = [r \in Reqs |-> NotFetched]
       /\ result = [r \in Reqs |-> NotCalled]
       /\ reply = [r \in Reqs |-> NoReply]

NextText == \E r \in Reqs : Classify(r) \/ Parse(r)

SpecText == InitText /\ [][NextText]_vars

\* the Filters get_earthquakes is called with
FetchFilters ==
  { [min_magnitude |-> m, max_magnitude |-> NoNumber, hours_back |-> h,
     location |-> l, limit |-> n] :
      m \in {NoNumber, 0, 450, 525}, h \in {NoNumber, 0, 1, 24, 20000000},
      l \in {None, "japan"}, n \in {NoNumber, 0, 1, 10, 5000} }

\* the provider client and the formatter on every Filter and provider reply:
\* get_earthquakes is about to be called with the Filter
InitFetch ==
  \E f \in FetchFilters :
    /\ pc = [r \in Reqs |-> IF r = "r1" THEN "parsed" ELSE "idle"]
    /\ endpoint = [r \in Reqs |-> None]
    /\ body = [r \in Reqs |-> NoBody]
    /\ text = [r \in Reqs |-> None]
    /\ intent = [r \in Reqs |-> IF r = "r1" THEN "query" ELSE None]
    /\ filters = [r \in Reqs |-> IF r = "r1" THEN f ELSE EarthquakeFilter]
    /\ queries = [r \in Reqs |-> <<>>]
    /\ provider = [r \in Reqs |-> NoProviderReply]
    /\ fetched = [r \in Reqs |-> NotFetched]
    /\ result = [r \in Reqs |-> NotCalled]
    /\ reply = [r \in Reqs |-> NoReply]

NextFetch ==
  \E r \in Reqs :
    \/ IssueQuery(r)
    \/ \E rep \in ProviderReplies : ProviderReply(r, rep)
    \/ Format(r)

SpecFetch ==
  /\ InitFetch
  /\ [][NextFetch]_vars

\* the events _format_response is called with
EventSendai ==
  [id |-> "us1", magnitude |-> 52, place |-> "10 km E of Sendai, Japan",
   time |-> 90061000, latitude |-> 3812, longitude |-> 14250, depth |-> 100,
   url |-> "https://e/us1", alert_level |-> "red", tsunami |-> TRUE]

EventLima ==
  [id |-> "us2", magnitude |-> 0, place |-> "Lima, Peru", time |-> 0,
   latitude |-> -1205, longitude |-> -7703, depth |-> 355, url |-> "",
   alert_level |-> None, tsunami |-> FALSE]

EventHonshu ==
  [id |-> "us4", magnitude |-> 71, place |-> "Honshu, Japan",
   time |-> 3599000, latitude |-> 3600, longitude |-> 13801, depth |-> 5,
   url |-> "", alert_level |-> "green", tsunami |-> TRUE]

EventUnknown ==
  [id |-> "", magnitude |-> 45, place |-> "Unknown location",
   time |-> 86400000, latitude |-> 7, longitude |-> -7, depth |-> 0,
   url |-> "https://e/us3", alert_level |-> "", tsunami |-> FALSE]

RenderEvents == {EventSendai, EventLima, EventHonshu, EventUnknown}

\* the largest number of events in a rendered list
MaxEvents == 2

RenderFilters ==
  { [min_magnitude |-> m, max_magnitude |-> NoNumber, hours_back |-> h,
     location |-> l, limit |-> 10] :
      m \in {NoNumber, 0, 500, 525}, h \in {NoNumber, 0, 1, 24},
      l \in {None, "japan"} }

\* the formatter on every event list and Filter: get_earthquakes has
\* returned the list
InitRender ==
  \E f \in RenderFilters, q \in SeqsUpTo(RenderEvents, MaxEvents) :
    /\ pc = [r \in Reqs |-> IF r = "r1" THEN "fetched" ELSE "idle"]
    /\ endpoint = [r \in Reqs |-> None]
    /\ body = [r \in Reqs |-> NoBody]
    /\ text = [r \in Reqs |-> None]
    /\ intent = [r \in Reqs |-> IF r = "r1" THEN "query" ELSE None]
    /\ filters = [r \in Reqs |-> IF r = "r1" THEN f ELSE EarthquakeFilter]
    /\ queries = [r \in Reqs |-> <<>>]
    /\ provider = [r \in Reqs |-> NoProviderReply]
    /\ fetched = [r \in Reqs |->
                    IF r = "r1"
                    THEN [raised |-> FALSE, events |-> q, error |-> None]
                    ELSE NotFetched]
    /\ result = [r \in Reqs |-> NotCalled]
    /\ reply = [r \in Reqs |-> NoReply]

NextRender == \E r \in Reqs : Format(r)

SpecRender ==
  /\ InitRender
  /\ [][NextRender]_vars

\* the texts of the query specification: the single phrases and the texts
\* of their own that the router passes on, a zero lookback with a zero
\* floor, and a result cap of 0
QueryTexts ==
  {t \in {p \o e : p \in Phrases \cup ExampleTexts \cup CascadeTexts
                              \cup MagnitudeTexts \cup LocationTexts
                              \cup {"last 0 hours above 0",
                                    "show 0 earthquakes"},
                    e \in Endings} :
     Intent(t) = "query"}

\* the query path on every query text and provider reply: process_message
\* has decided for the query path and is about to call parse_message
InitQuery ==
  \E t \in QueryTexts :
    /\ pc = [r \in Reqs |-> IF r = "r1" THEN "query" ELSE "idle"]
    /\ endpoint = [r \in Reqs |-> None]
    /\ body = [r \in Reqs |-> NoBody]
    /\ text = [r \in Reqs |-> IF r = "r1" THEN t ELSE None]
    /\ intent = [r \in Reqs |-> IF r = "r1" THEN "query" ELSE None]
    /\ filters = [r \in Reqs |-> EarthquakeFilter]
    /\ queries = [r \in Reqs |-> <<>>]
    /\ provider = [r \in Reqs |-> NoProviderReply]
    /\ fetched = [r \in Reqs |-> NotFetched]
    /\ result = [r \in Reqs |-> NotCalled]
    /\ reply = [r \in Reqs |-> NoReply]

NextQuery ==
  \/ Parse("r1")
  \/ IssueQuery("r1")
  \/ \E rep \in RequestReplies : ProviderReply("r1", rep)
  \/ Format("r1")

SpecQuery ==
  /\ InitQuery
  /\ [][NextQuery]_vars

\* the bodies of the boundary specification: every combination of absent,
\* empty and non-empty flat keys, with and without a nested text part
BoundaryBodies ==
  { [prompt |-> p, message |-> m, text |-> t, input |-> i, nested |-> n] :
      p \in {None, "", "hello"}, m \in {None, "", "help"},
      t \in {None, "", "hey"}, i \in {None, "", "earthquakes near Japan"},
      n \in {None, "recent quakes"} }

BoundaryReplies ==
  {Failed("timeout"), Json(FeatureCollection(JArr(<<FeatJapan>>)))}

\* the routes on every body: one request from arrival to reply
NextBoundary ==
  \/ \E b \in BoundaryBodies : earthquake_agent_endpoint("r1", b)
  \/ \E m \in ChatMessages : chat_endpoint("r1", m)
  \/ Classify("r1")
  \/ Parse("r1")
  \/ IssueQuery("r1")
  \/ \E rep \in BoundaryReplies : ProviderReply("r1", rep)
  \/ Format("r1")
  \/ Respond("r1")

SpecBoundary ==
  /\ Init
  /\ [][NextBoundary]_vars

----------------------------------------------------------------------------
(* Properties of the router and the extractor (SpecText) *)

\* w occurs somewhere in s
Occurs(s, w) ==
  \E i \in 1..(Len(s) - Len(w) + 1) : SubSeq(s, i, i + Len(w) - 1) = w

\* the lower-cased text of request r as the router sees it
LowText(r) == Lower(IF text[r] = None THEN "" ELSE text[r])

HasGreetingWord(low) ==
  Occurs(low, "hello") \/ Occurs(low, "hi") \/ Occurs(low, "hey")

\* C4: once the router has classified a text, the intent is the greeting
\* when the lower-cased text contains "hello", "hi" or "hey", else help when
\* it contains "help", else the query path; the greeting and help answers
\* are the fixed texts, and the query path is taken exactly when none of the
\* four words occurs.
C4_ClassificationOrder ==
  \A r \in Reqs :
    intent[r] # None =>
      LET low      == LowText(r)
          greeting == HasGreetingWord(low)
          help     == Occurs(low, "help")
      IN /\ greeting =>
              /\ intent[r] = "greeting"
              /\ result[r].response = GreetingText
              /\ pc[r] = "returned"
         /\ (~greeting /\ help) =>
              /\ intent[r] = "help"
              /\ result[r].response = HelpText
              /\ pc[r] = "returned"
         /\ (intent[r] = "query") <=> (~greeting /\ ~help)
         /\ intent[r] = "query" => pc[r] \in {"query", "parsed"}

\* a text with both a greeting word and "help" was answered by the greeting
C4_Witness ==
  \E r \in Reqs :
    /\ intent[r] = "greeting"
    /\ Occurs(LowText(r), "help")
    /\ result[r].response = GreetingText

\* the text of r carries none of the signals the extractor looks for: no
\* digit, no "today" or "week", no "in", "near" or "around"
NoSignal(r) ==
  LET low == LowText(r)
  IN /\ \A i \in 1..Len(low) : Char(low, i) \notin Digits
     /\ \A w \in {"today", "week", "in", "near", "around"} : ~Occurs(low, w)

IsLookbackText(loc) ==
  LET w == Split(loc)
  IN /\ Len(w) = 4
     /\ w[1] = "the"
     /\ w[2] = "last"
     /\ \A i \in 1..Len(w[3]) : Char(w[3], i) \in Digits
     /\ w[4] \in {"day", "days", "hour", "hours"}

\* C6: the extractor never returns lookback language as the location, and
\* "earthquakes in the last 7 days" yields hoursBack 168 with no location.
C6_LookbackNeverLocation ==
  \A r \in Reqs :
    pc[r] = "parsed" =>
      /\ filters[r].location # None => ~IsLookbackText(filters[r].location)
      /\ text[r] = "earthquakes in the last 7 days" =>
           (filters[r].hours_back = 168 /\ filters[r].location = None)

\* the remainder after the rightmost of the keywords " in ", " near ",
\* " around " in low, of which at least one occurs
AfterRightmostKeyword(low) ==
  LET kws  == {" in ", " near ", " around "}
      here == {kw \in kws : LastIndexOf(low, kw) > 0}
      kw   == CHOOSE k \in here :
                \A o \in here : LastIndexOf(low, o) <= LastIndexOf(low, k)
  IN SubSeq(low, LastIndexOf(low, kw) + Len(kw), Len(low))

\* the location is cut from rest: at most 4 words, trimmed of punctuation
CutLocation(rest) ==
  StripChars(Join(" ", Take(Split(rest), 4)), Punctuation)

\* Phase A finds nothing in low: no in/near/around is followed to the end of
\* the text by letters, spaces, hyphens, periods and commas only
NoTrailingLocation(low) ==
  \A i \in 1..Len(low) :
    \A kw \in {"in ", "near ", "around "} :
      StartsAt(low, kw, i) =>
        \E k \in (i + Len(kw))..Len(low) :
          Char(low, k) \notin LowerLetters \cup {" ", "-", ".", ","}

\* C10: when Phase A finds nothing and a keyword occurs, the location is cut
\* from the remainder after the rightmost keyword occurrence, whichever of
\* the three keywords that is (remainders that are lookback language aside).
C10_RightmostKeywordWins ==
  \A r \in Reqs :
    LET low == Strip(LowText(r))
    IN (/\ pc[r] = "parsed"
        /\ NoTrailingLocation(low)
        /\ \E kw \in {" in ", " near ", " around "} : Occurs(low, kw)
        /\ ~IsLookbackText(CutLocation(AfterRightmostKeyword(low))))
       => filters[r].location = CutLocation(AfterRightmostKeyword(low))

----------------------------------------------------------------------------
(* Properties of the provider client (SpecFetch) *)

\* the provider call of r failed: transport or status failure, or a body
\* that is not JSON or not the expected feature collection
ProviderFailed(r) ==
  \/ provider[r].kind \in {"timeout", "connect_error", "bad_status",
                           "invalid_json"}
  \/ /\ provider[r].kind = "json"
     /\ \/ provider[r].data.t # "obj"
        \/ /\ provider[r].data.t = "obj"
           /\ provider[r].data.features.t \notin {"arr", "missing"}

\* C1: whenever the provider call fails in any way, get_earthquakes returns
\* the empty sequence and raises nothing.
C1_FetchNeverRaises ==
  \A r \in Reqs :
    ProviderFailed(r) =>
      /\ ~fetched[r].raised
      /\ fetched[r].events = <<>>

----------------------------------------------------------------------------
(* Properties of the formatter (SpecRender) *)

\* s.split("\n")
RECURSIVE LinesFrom(_, _)
LinesFrom(s, i) ==
  LET j == SkipUntil(s, i, {"\n"})
  IN IF j > Len(s) THEN << IF i > Len(s) THEN "" ELSE SubSeq(s, i, Len(s)) >>
     ELSE << IF j = i THEN "" ELSE SubSeq(s, i, j - 1) >> \o LinesFrom(s, j + 1)

Lines(s) == LinesFrom(s, 1)

EndsWith(s, suffix) == StartsAt(s, suffix, Len(s) - Len(suffix) + 1)

\* the lookback and the magnitude floor a report shows: an unset or zero
\* lookback is shown as 24 hours, an unset floor as 0.0
ShownHours(f) == IF f.hours_back \in {NoNumber, 0} THEN 24 ELSE f.hours_back

ShownMagnitude(f) == IF f.min_magnitude = NoNumber THEN 0 ELSE f.min_magnitude

\* the part of both headers after "found" / "earthquake(s)"
HeaderTail(f) ==
  (IF f.location = None THEN "" ELSE " in " \o f.location)
    \o " in the last " \o ToString(ShownHours(f))
    \o (IF ShownHours(f) = 1 THEN " hour" ELSE " hours")
    \o " (M" \o Fixed1(TenthsOfHundredths(ShownMagnitude(f))) \o "+)"

\* the number of lines of the block of event ev
BlockSize(ev) == IF ev.url = "" THEN 3 ELSE 4

\* the line on which the block of the i-th event starts: after the header
\* and a blank line, blocks follow each other separated by one blank line
RECURSIVE BlockStart(_, _)
BlockStart(evs, i) ==
  IF i = 1 THEN 3 ELSE BlockStart(evs, i - 1) + BlockSize(evs[i - 1]) + 1

AlertMarker(ev) ==
  CASE ev.alert_level = "red" -> " [RED]"
    [] ev.alert_level = "green" -> " [GREEN]"
    [] OTHER -> ""

\* C7: the report of zero events is the single line "No earthquakes found"
\* + optional " in {location}" + " in the last N hour(s) (M{floor}+)." with
\* "hour" exactly when N is 1; the report of n > 0 events is the header
\* "Found n earthquake(s)...:", a blank line, and one block per event in
\* input order, numbered from 1, with the URL line exactly when the url is
\* not empty, the tsunami marker before the upper-cased alert level, one
\* blank line between blocks and none at the end.
C7_ReportLayout ==
  \A r \in Reqs :
    (pc[r] = "returned" /\ result[r].has_events) =>
      LET evs == fetched[r].events
          n   == Len(evs)
          f   == filters[r]
          ls  == Lines(result[r].response)
      IN IF n = 0
         THEN /\ Len(ls) = 1
              /\ ls[1] = "No earthquakes found" \o HeaderTail(f) \o "."
         ELSE /\ ls[1] = "Found " \o ToString(n) \o " earthquake(s)"
                           \o HeaderTail(f) \o ":"
              /\ ls[2] = ""
              /\ Len(ls) = BlockStart(evs, n) + BlockSize(evs[n]) - 1
              /\ ls[Len(ls)] # ""
              /\ \A i \in 1..n :
                   LET b == BlockStart(evs, i)
                   IN /\ ls[b] = ToString(i) \o ". M"
                                   \o Fixed1(evs[i].magnitude) \o " -- "
                                   \o evs[i].place
                      /\ StartsAt(ls[b + 1], "   1970-01-", 1)
                      /\ EndsWith(ls[b + 1], " UTC")
                      /\ StartsAt(ls[b + 2], "   Lat: ", 1)
                      /\ EndsWith(ls[b + 2],
                                  " km"
                                    \o (IF evs[i].tsunami
                                        THEN " (!) TSUNAMI WARNING" ELSE "")
                                    \o AlertMarker(evs[i]))
                      /\ evs[i].url # "" => ls[b + 3] = "   " \o evs[i].url
                      /\ i < n => ls[b + BlockSize(evs[i])] = ""

\* a report of two events was rendered, the first without a URL line and
\* the second with tsunami marker, alert level and URL line
C7_Witness ==
  \E r \in Reqs :
    /\ pc[r] = "returned"
    /\ fetched[r].events = <<EventLima, EventSendai>>
    /\ Len(Lines(result[r].response)) = 10

----------------------------------------------------------------------------
(* Properties of the router end to end (Spec) *)

\* process_message was called for r and is over
RouterOver(r) == pc[r] \in {"returned", "done"} /\ intent[r] # None

\* C2: process_message returns a report and never raises; when a step of
\* the query path failed, the report is the apology starting "Sorry,
\* something went wrong:" and carries no events.
C2_RouterNeverRaises ==
  \A r \in Reqs :
    /\ ~result[r].raised
    /\ RouterOver(r) => result[r].response # None
    /\ (RouterOver(r) /\ fetched[r].raised) =>
         /\ StartsAt(result[r].response, "Sorry, something went wrong:", 1)
         /\ ~result[r].has_events
         /\ result[r].events = <<>>
    /\ (pc[r] = "done" /\ intent[r] # None) => reply[r].status = 200

\* a provider body that is not JSON ended in the apology
C2_Witness ==
  \E r \in Reqs :
    /\ pc[r] = "done"
    /\ provider[r].kind = "invalid_json"
    /\ fetched[r].raised
    /\ StartsAt(result[r].response, "Sorry, something went wrong:", 1)

\* the greeting and help answers need no provider call, and no call is
\* ever repeated
NoCallWithoutQuery(r) ==
  /\ Len(queries[r]) <= 1
  /\ (RouterOver(r) /\ intent[r] \in {"greeting", "help"}) =>
       /\ Len(queries[r]) = 0
       /\ ~result[r].has_events
       /\ result[r].response \in {GreetingText, HelpText}
  /\ text[r] = "hello" /\ RouterOver(r) => result[r].response = GreetingText

\* C3 as stated: no provider call for a greeting or help text, exactly one
\* on the query path, never a retry.
C3_ExactlyOneCall ==
  \A r \in Reqs :
    /\ NoCallWithoutQuery(r)
    /\ (RouterOver(r) /\ intent[r] = "query") => Len(queries[r]) = 1

\* C3 amended: no provider call for a greeting or help text; on the query
\* path exactly one call once the query is issued and none when computing
\* the start of the window raised before that; never a retry.
C3_AtMostOneCall ==
  \A r \in Reqs :
    /\ NoCallWithoutQuery(r)
    /\ (RouterOver(r) /\ intent[r] = "query") =>
         Len(queries[r]) = (IF fetched[r].error = "OverflowError" THEN 0
                            ELSE 1)

\* a query whose provider call timed out was answered after that one call
C3_Witness ==
  \E r \in Reqs :
    /\ pc[r] = "done"
    /\ intent[r] = "query"
    /\ provider[r].kind = "timeout"
    /\ Len(queries[r]) = 1
    /\ result[r].has_events

----------------------------------------------------------------------------
(* Properties of the boundary layer (SpecBoundary) *)

FlatValues(b) == <<b.prompt, b.message, b.text, b.input>>

\* no flat key of b carries text
NoFlatText(b) == \A k \in 1..4 : FlatValues(b)[k] \in {None, ""}

\* the first non-empty flat value of b
FirstFlatText(b) ==
  LET k == Min({j \in 1..4 : FlatValues(b)[j] \notin {None, ""}})
  IN FlatValues(b)[k]

\* r arrived at POST /a2a/agent/earthquake
A2ASeen(r) == pc[r] # "idle" /\ endpoint[r] = "a2a"

\* C8 as stated: when no text key carries text, the default query "recent"
\* is given to the router.
C8_DefaultQueryRecent ==
  \A r \in Reqs :
    (A2ASeen(r) /\ NoFlatText(body[r]) /\ body[r].nested = None) =>
      /\ text[r] = "recent"
      /\ pc[r] = "done" => result[r] # NotCalled

\* C8 amended: when no text key carries text, the route does not reject the
\* request but answers at once with the fixed "I didn't receive any text"
\* reply marked missing_text_key, and the router is not invoked.
C8_MissingTextReply ==
  \A r \in Reqs :
    (A2ASeen(r) /\ NoFlatText(body[r])) =>
      /\ pc[r] = "done"
      /\ reply[r].status = 200
      /\ StartsAt(reply[r].response, "I didn't receive any text.", 1)
      /\ reply[r].reason = "missing_text_key"
      /\ text[r] = None
      /\ intent[r] = None
      /\ result[r] = NotCalled
      /\ queries[r] = <<>>

\* a body whose text keys are all empty strings got the fixed reply
C8_Witness ==
  \E r \in Reqs :
    /\ A2ASeen(r)
    /\ body[r].prompt = "" /\ body[r].message = ""
    /\ body[r].text = "" /\ body[r].input = ""
    /\ reply[r].reason = "missing_text_key"

\* the text the claim expects the route to extract from b
ExpectedText(b) == IF NoFlatText(b) THEN b.nested ELSE FirstFlatText(b)

\* C9 as stated: the text given to the router is the first non-empty flat
\* value, or else the text of the nested text-kind part.
C9_TextFromEitherShape ==
  \A r \in Reqs :
    (A2ASeen(r) /\ ExpectedText(body[r]) # None) =>
      /\ text[r] = ExpectedText(body[r])
      /\ pc[r] = "done" => (result[r] # NotCalled
                            /\ reply[r].response = result[r].response)

\* C9 amended: the text given to the router is the first non-empty value of
\* prompt, message, text, input in that order, and the router's answer is
\* the reply; the nested shape is not unpacked, so a body with only a
\* nested text part counts as carrying no text.
C9_TextFromFlatKeys ==
  \A r \in Reqs :
    A2ASeen(r) =>
      IF NoFlatText(body[r])
      THEN text[r] = None /\ result[r] = NotCalled
      ELSE /\ text[r] = FirstFlatText(body[r])
           /\ pc[r] = "done" => (result[r] # NotCalled
                                 /\ reply[r].response = result[r].response)

\* a body with an empty prompt and two later keys was answered from the
\* first non-empty one
C9_Witness ==
  \E r \in Reqs :
    /\ A2ASeen(r) /\ pc[r] = "done"
    /\ body[r].prompt = "" /\ body[r].message = "help"
    /\ body[r].text = "hey"
    /\ text[r] = "help"
    /\ reply[r].response = HelpText

----------------------------------------------------------------------------
(* Properties of the extractor's rules (SpecText) *)

\* w is a non-empty run of digits
IsNumber(w) == Len(w) > 0 /\ \A i \in 1..Len(w) : Char(w, i) \in Digits

\* the places in the word list ws where a word ending in "last" or "past"
\* is followed by a number and a word starting with unit
WindowsAt(ws, unit) ==
  {i \in 1..(Len(ws) - 2) :
     /\ EndsWith(ws[i], "last") \/ EndsWith(ws[i], "past")
     /\ IsNumber(ws[i + 1])
     /\ StartsAt(ws[i + 2], unit, 1)}

\* the number of the first "(last|past) N <unit>" phrase of low, NoNumber
\* when there is none
Window(low, unit) ==
  LET ws == Split(low)
      at == WindowsAt(ws, unit)
  IN IF at = {} THEN NoNumber ELSE IntOf(ws[Min(at) + 1])

\* w stands in low as a word of its own, punctuation aside
Standalone(low, w) ==
  LET ws == Split(low)
  IN \E i \in 1..Len(ws) : StripChars(ws[i], Punctuation) = w

\* the text of r as parse_message sees it
ParsedText(r) == Strip(LowText(r))

\* C11 as stated: no rule of the cascade lowers hoursBack below the value
\* of an earlier rule, so the final hoursBack is at least the H of an hours
\* match, the D * 24 of a days match, 24 when "today" occurs and 168 when
\* "week" occurs without a days match.
C11_CascadeOnlyRaises ==
  \A r \in Reqs :
    pc[r] = "parsed" =>
      LET low == ParsedText(r)
          H   == Window(low, "hour")
          D   == Window(low, "day")
      IN /\ H # NoNumber => filters[r].hours_back >= H
         /\ D # NoNumber => filters[r].hours_back >= D * 24
         /\ Standalone(low, "today") => filters[r].hours_back >= 24
         /\ (Standalone(low, "week") /\ D = NoNumber) =>
              filters[r].hours_back >= 168

\* C11 amended: the "today" and "week" rules only raise hoursBack, while the
\* days rule replaces the result of the hours rule, also by a smaller
\* value: the final hoursBack is at least D * 24 of a days match, at least
\* 24 when "today" occurs, at least 168 when "week" occurs without a days
\* match, and at least the H of an hours match when no days match fired.
C11_OnlyTodayAndWeekRaise ==
  \A r \in Reqs :
    pc[r] = "parsed" =>
      LET low == ParsedText(r)
          H   == Window(low, "hour")
          D   == Window(low, "day")
      IN /\ (H # NoNumber /\ D = NoNumber) => filters[r].hours_back >= H
         /\ D # NoNumber => filters[r].hours_back >= D * 24
         /\ Standalone(low, "today") => filters[r].hours_back >= 24
         /\ (Standalone(low, "week") /\ D = NoNumber) =>
              filters[r].hours_back >= 168

\* an hours match above a week, followed by "week", kept its value
C11_Witness ==
  \E r \in Reqs :
    /\ pc[r] = "parsed"
    /\ Window(ParsedText(r), "hour") > 168
    /\ Window(ParsedText(r), "day") = NoNumber
    /\ Standalone(ParsedText(r), "week")
    /\ filters[r].hours_back = Window(ParsedText(r), "hour")

\* the reference cascade of the claim
ReferenceHours(low) ==
  LET H  == Window(low, "hour")
      D  == Window(low, "day")
      h1 == IF H # NoNumber THEN H ELSE 24
      h2 == IF D # NoNumber THEN D * 24 ELSE h1
      h3 == IF Standalone(low, "today") THEN Max2(h2, 24) ELSE h2
  IN IF Standalone(low, "week") /\ D = NoNumber THEN Max2(h3, 168) ELSE h3

\* C12: hoursBack is the result of the reference cascade (24; H of an hours
\* match; D * 24 of a days match, over any hours match; at least 24 with
\* "today"; at least 168 with "week" unless a days match fired); a days
\* match without "today" yields exactly D * 24, whatever else the text
\* holds.
C12_ReferenceCascade ==
  \A r \in Reqs :
    pc[r] = "parsed" =>
      LET low == ParsedText(r)
          D   == Window(low, "day")
      IN /\ filters[r].hours_back = ReferenceHours(low)
         /\ (D # NoNumber /\ ~Standalone(low, "today")) =>
              filters[r].hours_back = D * 24

\* a text with "week", a days match and a larger hours match got D * 24
C12_Witness ==
  \E r \in Reqs :
    /\ pc[r] = "parsed"
    /\ Standalone(ParsedText(r), "week")
    /\ Window(ParsedText(r), "day") # NoNumber
    /\ Window(ParsedText(r), "hour") > Window(ParsedText(r), "day") * 24
    /\ filters[r].hours_back = Window(ParsedText(r), "day") * 24

\* the first non-None entry of a list of captures as a magnitude, the
\* default floor 4.5 when there is none
FirstCapture(res) ==
  LET hits == {k \in 1..Len(res) : res[k] # None}
  IN IF hits = {} THEN 450 ELSE FloatHundredths(res[Min(hits)])

\* the seven patterns of the claim, each searched in the whole text:
\* ">=N", "> =N", "mag[nitude] N", "m N", "N+", "greater than N", "above N"
SevenPatterns(low) ==
  << SearchLitNum(low, <<">=">>),
     SearchGtEqNum(low),
     SearchLitNum(low, <<"magnitude", "mag">>),
     SearchLitNum(low, <<"m">>),
     SearchNumPlus(low),
     SearchLitNum(low, <<"greater than">>),
     SearchLitNum(low, <<"above">>) >>

\* C13 as stated: minMagnitude is the number captured by the first of the
\* seven patterns that matches anywhere in the text, a "mag[nitude] N"
\* phrase before an "m K" phrase wherever the two stand; 4.5 when no
\* pattern matches.
C13_PatternPriority ==
  \A r \in Reqs :
    pc[r] = "parsed" =>
      filters[r].min_magnitude = FirstCapture(SevenPatterns(ParsedText(r)))

\* the position of the leftmost match of `lits` followed by a number in
\* low, 0 when there is none
FirstMatchAt(low, lits) ==
  LET hits == {i \in Positions(low) : LitNumAt(low, lits, i) # None}
  IN IF hits = {} THEN 0 ELSE Min(hits)

\* of a "mag[nitude] N" and an "m K" phrase, the capture of the one that
\* starts first in low
MagOrM(low) ==
  LET a == FirstMatchAt(low, <<"magnitude", "mag">>)
      b == FirstMatchAt(low, <<"m">>)
  IN IF a = 0 /\ b = 0 THEN None
     ELSE IF b = 0 \/ (a # 0 /\ a < b)
          THEN LitNumAt(low, <<"magnitude", "mag">>, a)
          ELSE LitNumAt(low, <<"m">>, b)

\* the six patterns of the code: "mag[nitude] N" and "m N" are one pattern
SixPatterns(low) ==
  << SearchLitNum(low, <<">=">>),
     SearchGtEqNum(low),
     MagOrM(low),
     SearchNumPlus(low),
     SearchLitNum(low, <<"greater than">>),
     SearchLitNum(low, <<"above">>) >>

\* C13 amended: minMagnitude is the number captured by the first matching
\* pattern of ">=N", "> =N", "mag[nitude] N or m N", "N+", "greater than
\* N", "above N", by pattern priority and not by position; within the third
\* pattern the phrase that starts first in the text is used, be it the
\* "magnitude N" or the "m K" one.
C13_SixPatternPriority ==
  \A r \in Reqs :
    pc[r] = "parsed" =>
      filters[r].min_magnitude = FirstCapture(SixPatterns(ParsedText(r)))

\* a text with an "m K" phrase before a "magnitude N" phrase, and no ">="
\* phrase, got K
C13_Witness ==
  \E r \in Reqs :
    LET low == ParsedText(r)
        a   == FirstMatchAt(low, <<"magnitude", "mag">>)
        b   == FirstMatchAt(low, <<"m">>)
    IN /\ pc[r] = "parsed"
       /\ 0 < b /\ b < a
       /\ filters[r].min_magnitude
            = FloatHundredths(LitNumAt(low, <<"m">>, b))
       /\ filters[r].min_magnitude
            # FloatHundredths(LitNumAt(low, <<"magnitude", "mag">>, a))

\* C18: a location that the extractor sets is not empty, is lower-cased,
\* has at most 4 whitespace-separated words, each of them from the text,
\* and does not end with ".", ",", "!" or "?".
C18_LocationTrimmed ==
  \A r \in Reqs :
    (pc[r] = "parsed" /\ filters[r].location # None) =>
      LET loc == filters[r].location
          ws  == Split(loc)
      IN /\ Len(loc) > 0
         /\ Lower(loc) = loc
         /\ Len(ws) >= 1 /\ Len(ws) <= 4
         /\ \A i \in 1..Len(ws) : Occurs(ParsedText(r), ws[i])
         /\ Char(loc, Len(loc)) \notin Punctuation

----------------------------------------------------------------------------
(* Properties of the provider query and of the mapped records (SpecFetch) *)

\* get_earthquakes has sent the query of r
QuerySent(r) == queries[r] # <<>>

\* n clamped into the provider's range 1..200, 10 standing for an unset n
Clamped(n) ==
  IF n = NoNumber THEN 10
  ELSE IF n < 1 THEN 1
  ELSE IF n > 200 THEN 200
  ELSE n

\* C14: the result cap of every provider query is an integer within
\* 1..200, namely the limit of the Filter clamped into that range (1 for a
\* limit of 0, 200 for a larger limit) and 10 when the limit is unset.
C14_LimitClamped ==
  \A r \in Reqs :
    QuerySent(r) =>
      /\ queries[r][1].limit \in 1..200
      /\ queries[r][1].limit = Clamped(filters[r].limit)

\* the provider answered r with a feature collection whose features are a
\* list, and get_earthquakes is over
ListAnswered(r) ==
  /\ pc[r] \in {"fetched", "returned"}
  /\ provider[r].kind = "json"
  /\ provider[r].data.t = "obj"
  /\ provider[r].data.features.t = "arr"

\* a value that is a string, or absent or null
TextOrAbsent(j) == j.t \in {"str", "null", "missing"}

NumberOrAbsent(j) == j.t \in {"num", "null", "missing"}

\* the record has the shape of the interface: an object with properties
\* (magnitude, place, time, url, alert, tsunami flag; each may be absent)
\* and a geometry with three numeric coordinates
WellFormed(feat) ==
  /\ feat.t = "obj"
  /\ TextOrAbsent(feat.id)
  /\ feat.properties.t = "obj"
  /\ NumberOrAbsent(feat.properties.mag)
  /\ TextOrAbsent(feat.properties.place)
  /\ NumberOrAbsent(feat.properties.time)
  /\ TextOrAbsent(feat.properties.url)
  /\ TextOrAbsent(feat.properties.alert)
  /\ feat.geometry.t = "obj"
  /\ feat.geometry.coordinates.t = "arr"
  /\ Len(feat.geometry.coordinates.v) = 3
  /\ \A k \in 1..3 : feat.geometry.coordinates.v[k].t = "num"

\* the place text of a well-formed record, empty when it has none
PlaceText(feat) ==
  IF feat.properties.place.t = "str" THEN feat.properties.place.v ELSE ""

\* the record passes the location filter of f
Matches(feat, f) ==
  f.location = None \/ Occurs(Lower(PlaceText(feat)), Lower(f.location))

\* the records of feats that fetch is to return for f, in their order
Selected(feats, f) ==
  LET Keep(feat) == WellFormed(feat) /\ Matches(feat, f)
  IN SelectSeq(feats, Keep)

\* the identifier and the place fetch gives the event of a record
Identity(feat) ==
  <<IF feat.id.t = "str" THEN feat.id.v ELSE "",
    IF PlaceText(feat) = "" THEN "Unknown location" ELSE PlaceText(feat)>>

\* C15: for a list of provider records, fetch returns the events of exactly
\* the well-formed records whose lower-cased place contains the lower-cased
\* location, in the provider's order, a record without place never among
\* them when a location is set; without a location it returns the events
\* of all well-formed records in the provider's order.
C15_LocationSubsequence ==
  \A r \in Reqs :
    ListAnswered(r) =>
      LET want == Selected(provider[r].data.features.v, filters[r])
          got  == fetched[r].events
      IN /\ Len(got) = Len(want)
         /\ \A i \in 1..Len(want) :
              <<got[i].id, got[i].place>> = Identity(want[i])
         /\ filters[r].location # None =>
              \A i \in 1..Len(got) : got[i].place # "Unknown location"

\* C16: a malformed record in a list of provider records never aborts the
\* batch: fetch does not raise, and it returns one event for every
\* well-formed record that passes the location filter.
C16_MalformedRecordSkipped ==
  \A r \in Reqs :
    ListAnswered(r) =>
      /\ ~fetched[r].raised
      /\ Len(fetched[r].events)
           >= Len(Selected(provider[r].data.features.v, filters[r]))

\* the limit of f as a number of events, 10 when it is unset
EventLimit(f) == IF f.limit = NoNumber THEN 10 ELSE f.limit

\* C17: fetch returns at most filter.limit events, whatever the provider
\* sends, and so does the report built from them.
C17_AtMostLimitEvents ==
  \A r \in Reqs :
    /\ pc[r] \in {"fetched", "returned"} =>
         Len(fetched[r].events) <= EventLimit(filters[r])
    /\ pc[r] = "returned" =>
         Len(result[r].events) <= EventLimit(filters[r])

----------------------------------------------------------------------------
(* Properties of one query request (SpecQuery) *)

\* the first line of a report
Header(response) == Lines(response)[1]

\* the number after the last " in the last " of header h
HoursShown(h) ==
  LET a == LastIndexOf(h, " in the last ") + Len(" in the last ")
  IN IntOf(SubSeq(h, a, SkipWhile(h, a, Digits) - 1))

\* the magnitude after the last "(M" of header h, which is printed with one
\* decimal place, counted in hundredths
FloorShown(h) ==
  LET a == LastIndexOf(h, "(M") + Len("(M")
      b == SkipWhile(h, a, Digits)
  IN IntOf(SubSeq(h, a, b - 1)) * 100 + DigitVal(Char(h, b + 1)) * 10

\* r went down the query path, its query was sent and the formatter
\* produced its report
Reported(r) ==
  /\ pc[r] = "returned"
  /\ result[r].has_events
  /\ QuerySent(r)

\* from the call of fetch on, the Filter of r is the one extract built
FilterUntouched(r) ==
  (intent[r] = "query" /\ pc[r] \in {"awaiting", "fetched", "returned"})
    => filters[r] = parse_message(text[r])

\* C19 as stated: the lookback hours and the minimum magnitude of the
\* report header are those of the provider query, a lookback of 0 being 24
\* in both, and the Filter that extract built is still the Filter of the
\* request after fetch and render.
C19_ReportShowsQuery ==
  \A r \in Reqs :
    /\ FilterUntouched(r)
    /\ Reported(r) =>
         /\ HoursShown(Header(result[r].response)) = queries[r][1].lookback
         /\ queries[r][1].lookback
              = (IF filters[r].hours_back = 0 THEN 24
                 ELSE filters[r].hours_back)
         /\ FloorShown(Header(result[r].response))
              = queries[r][1].minmagnitude

\* C19 amended: the header shows the lookback hours of the provider query
\* (24 for a lookback of 0 in both) and the minimum magnitude of the query
\* rounded to one decimal place, so equal to it when it has at most one
\* fractional digit and within 0.05 of it otherwise; and the Filter that
\* extract built is still the Filter of the request after fetch and render.
C19_ReportShowsRoundedFloor ==
  \A r \in Reqs :
    /\ FilterUntouched(r)
    /\ Reported(r) =>
         LET shown == FloorShown(Header(result[r].response))
             sent  == queries[r][1].minmagnitude
         IN /\ HoursShown(Header(result[r].response))
                 = queries[r][1].lookback
            /\ queries[r][1].lookback
                 = (IF filters[r].hours_back = 0 THEN 24
                    ELSE filters[r].hours_back)
            /\ shown - sent <= 5 /\ sent - shown <= 5
            /\ sent % 10 = 0 => shown = sent

\* a request with a lookback of 0 and a floor of 0 was queried and reported
\* with 24 hours and M0.0+
C19_Witness ==
  \E r \in Reqs :
    /\ Reported(r)
    /\ filters[r].hours_back = 0 /\ filters[r].min_magnitude = 0
    /\ queries[r][1].lookback = 24 /\ queries[r][1].minmagnitude = 0
    /\ HoursShown(Header(result[r].response)) = 24
    /\ FloorShown(Header(result[r].response)) = 0

----------------------------------------------------------------------------
(* Properties of concurrent requests (Spec) *)

\* what process_message returns for the text t when the request runs alone
\* and its provider call, if it makes one, comes back with rep
ReportAlone(t, rep) ==
  IF Intent(t) = "greeting" THEN Returned(GreetingText, FALSE, <<>>)
  ELSE IF Intent(t) = "help" THEN Returned(HelpText, FALSE, <<>>)
  ELSE LET f == parse_message(t)
       IN IF StartOverflows(f) THEN OnException("OverflowError")
          ELSE LET out == FetchOutcome(f, rep)
               IN IF out.raised THEN OnException(out.error)
                  ELSE Returned(_format_response(out.events, f), TRUE,
                                out.events)

\* everything the model keeps of request q
StateOf(q) ==
  <<pc[q], endpoint[q], body[q], text[q], intent[q], filters[q], queries[q],
    provider[q], fetched[q], result[q], reply[q]>>

\* process_message has returned for r
Answered(r) == pc[r] \in {"returned", "done"} /\ result[r] # NotCalled

\* C20: under every interleaving of the requests, the report of a request
\* is the report it produces when run alone on its own text and its own
\* provider response, and a step of one request changes nothing that
\* belongs to another request.
C20_NoInterference ==
  /\ [](\A r \in Reqs :
          Answered(r) => result[r] = ReportAlone(text[r], provider[r]))
  /\ [][\A q \in Reqs : pc'[q] = pc[q] => StateOf(q)' = StateOf(q)]_vars

\* two query requests with different texts and different provider responses
\* were in flight together: one has its report of two events, the other its
\* report of none, and neither has been replied to yet
C20_Witness ==
  \E r \in Reqs, q \in Reqs :
    /\ r # q
    /\ pc[r] = "returned" /\ pc[q] = "returned"
    /\ result[r].has_events /\ result[q].has_events
    /\ text[r] # text[q]
    /\ filters[r] # filters[q]
    /\ Len(result[r].events) = 2 /\ Len(result[q].events) = 0
    /\ result[r] = ReportAlone(text[r], provider[r])
    /\ result[q] = ReportAlone(text[q], provider[q])

====
